---- MODULE Spec2Model ----
(***************************************************************************)
(* Stripe / AWS subscription integration: the Customer Directory (DynamoDB *)
(* table keyed by userId with a stripeCustomerId index), the billing       *)
(* provider (Stripe customers, subscriptions, checkout sessions), and the  *)
(* Lambda handlers: sync-stripe-data (the Subscription Reconciler), the    *)
(* Stripe webhook, create-checkout, success-stripe-sync.  Every await of  *)
(* a handler is one step.                                                  *)
(***************************************************************************)
EXTENDS Integers, Sequences, FiniteSets, TLC

VARIABLES
    customerTable,   \* CUSTOMER_TABLE: userId -> Item (NoItem when there is none)
    customers,       \* Stripe customers, in creation order
    subscriptions,   \* Stripe: customer id -> subscriptions, most recent first
    sessions,        \* Stripe checkout sessions created so far
    now,             \* the wall clock read by new Date()
    queue,           \* Lambda async ("Event") invocations accepted, not yet started
    sync,            \* invocations of the sync-stripe-data handler
    webhook,         \* invocations of the webhook handler
    checkout,        \* invocations of the create-checkout handler
    successSync,     \* invocations of the success-stripe-sync handler
    userAttributes,  \* Cognito user pool: userId -> custom attributes
    portal,          \* invocations of the manage-subscription handler
    portalSessions,  \* Stripe billing portal sessions created so far
    lastPut,         \* history: userId -> the invocation whose Put was the last
    epoch            \* history: number of changes of the provider's subscriptions

vars == <<customerTable, customers, subscriptions, sessions, now, queue,
          sync, webhook, checkout, successSync, userAttributes, portal,
          portalSessions, lastPut, epoch>>

----------------------------------------------------------------------------
(* Bounds *)

MaxTime == 2
MaxProviderChanges == 2
MaxCustomers == 2

----------------------------------------------------------------------------
(* JavaScript values *)

Undefined == "undefined"
Null == "null"

\* !v for the string-or-nullish values the handlers test
Falsy(v) == v \in {Undefined, Null, ""}

\* obj.k, undefined when the property is absent
Field(obj, k) == IF k \in DOMAIN obj THEN obj[k] ELSE Undefined

\* JSON.parse(JSON.stringify(obj)): undefined-valued properties are dropped
JsonRoundTrip(obj) ==
    LET keep == {k \in DOMAIN obj : obj[k] # Undefined}
    IN  [k \in keep |-> obj[k]]

\* null in a position that otherwise holds an object
NullObject == [isNull |-> TRUE]

\* values that may be a string, an object, null or undefined, tagged with
\* their typeof
JsString(v) == [typeof |-> "string", value |-> v]
JsNull == [typeof |-> "object", isNull |-> TRUE]
JsObject(id) == [typeof |-> "object", id |-> id]
JsUndefined == [typeof |-> "undefined"]

\* the truthiness of a tagged value
JsTruthy(v) ==
    /\ v.typeof # "undefined"
    /\ "isNull" \notin DOMAIN v
    /\ v.typeof = "string" => v.value # ""

----------------------------------------------------------------------------
(* The world: users, provider customers, subscriptions *)

Users == {"u1", "u2"}
Email(u) == IF u = "u1" THEN "u1@example.com" ELSE "u2@example.com"

\* ids the provider hands out, in order
CustomerIdSeq == <<"cus_1", "cus_2", "cus_3", "cus_4">>
CustomerIds == {CustomerIdSeq[i] : i \in 1..Len(CustomerIdSeq)}

NoItem == <<>>

Card == [brand |-> "visa", last4 |-> "4242"]

\* Stripe.Subscription objects the provider may hold (the fields the handler reads)
SubActive ==
    [id |-> "sub_1", status |-> "active", items |-> <<"price_1">>,
     current_period_end |-> "1735689600", current_period_start |-> "1733011200",
     cancel_at_period_end |-> FALSE,
     default_payment_method |-> [typeof |-> "object", card |-> Card]]
SubCanceling ==
    [id |-> "sub_2", status |-> "past_due", items |-> <<"price_2", "price_1">>,
     current_period_end |-> "1738368000", current_period_start |-> "1735689600",
     cancel_at_period_end |-> TRUE,
     default_payment_method |-> JsString("pm_1")]

SubscriptionLists == {<<>>, <<SubActive>>, <<SubCanceling, SubActive>>}

\* subscriptions whose default payment method is null, not set, or an
\* expanded payment method that is not a card
SubTrialing ==
    [id |-> "sub_3", status |-> "trialing", items |-> <<"price_1">>,
     current_period_end |-> "1735689600", current_period_start |-> "1733011200",
     cancel_at_period_end |-> FALSE,
     default_payment_method |-> JsNull]
SubIncomplete ==
    [id |-> "sub_4", status |-> "incomplete", items |-> <<"price_2">>,
     current_period_end |-> "1735689600", current_period_start |-> "1733011200",
     cancel_at_period_end |-> FALSE,
     default_payment_method |-> JsUndefined]
SubBankDebit ==
    [id |-> "sub_5", status |-> "active", items |-> <<"price_2", "price_1">>,
     current_period_end |-> "1738368000", current_period_start |-> "1735689600",
     cancel_at_period_end |-> TRUE,
     default_payment_method |-> JsObject("pm_2")]

PaymentMethodLists ==
    SubscriptionLists \cup
        {<<SubTrialing>>, <<SubIncomplete, SubActive>>, <<SubBankDebit, SubTrialing>>}

----------------------------------------------------------------------------
(* DynamoDB document client *)

\* GetCommand: the item stored under the primary key
GetItem(tbl, userId) == IF userId \in DOMAIN tbl THEN tbl[userId] ELSE NoItem

\* PutCommand: the item replaces whatever was stored under its key
PutItem_Partial(tbl, item) ==
    LET old == tbl[item.userId]
    IN  [tbl EXCEPT ![item.userId] =
           [k \in DOMAIN item |->
               IF k \in DOMAIN old /\ k \in {"priceId", "paymentMethod"}
               THEN old[k] ELSE item[k]]]
PutItem(tbl, item) == [tbl EXCEPT ![item.userId] = item]

\* QueryCommand on stripeCustomerId-index: the items with that index key
QueryByStripeCustomerId(tbl, id) ==
    {tbl[u] : u \in {v \in DOMAIN tbl :
                        tbl[v] # NoItem /\ Field(tbl[v], "stripeCustomerId") = id}}

----------------------------------------------------------------------------
(* sync-stripe-data.ts: the Subscription Reconciler *)

SyncIds == {"s1", "s2"}

SyncIdle ==
    [pc |-> "idle", event |-> <<>>, trigger |-> "none",
     stripeCustomerId |-> Undefined, existingUserId |-> Undefined,
     queried |-> "no", listed |-> <<>>, listedAt |-> 0, subData |-> <<>>,
     wrote |-> NoItem,
     before |-> NoItem, listCalls |-> 0, after |-> {}, result |-> <<>>]

SyncSuccess_Relisted(data) ==
    [success |-> TRUE,
     data |-> [k \in DOMAIN data |->
                  IF k = "status" THEN "none" ELSE data[k]]]
SyncSuccess(data) == [success |-> TRUE, data |-> data]
SyncFailure(message) == [success |-> FALSE, error |-> message]

ErrCustomerIdRequired == "Customer ID is required"
ErrNoUserFound == "No user found for this Stripe customer"
ErrDynamo == "DynamoDB request failed"
ErrStripe == "Stripe request failed"

\* stripe.subscriptions.list({customer, limit: 1, status: 'all', expand})
ListLimit == 1
ListSubscriptions(customer) ==
    LET all == subscriptions[customer]
    IN  SubSeq(all, 1, IF Len(all) < ListLimit THEN Len(all) ELSE ListLimit)

NoneSubData_Stale ==
    [subscriptionId |-> Null, status |-> "none", priceId |-> "price_1",
     currentPeriodEnd |-> Null, currentPeriodStart |-> Null,
     cancelAtPeriodEnd |-> FALSE, paymentMethod |-> NullObject]
NoneSubData ==
    [subscriptionId |-> Null, status |-> "none", priceId |-> Null,
     currentPeriodEnd |-> Null, currentPeriodStart |-> Null,
     cancelAtPeriodEnd |-> FALSE, paymentMethod |-> NullObject]

PaymentMethodOf_AnyTruthy(paymentMethod) ==
    IF JsTruthy(paymentMethod)
    THEN [brand |-> IF "card" \in DOMAIN paymentMethod
                    THEN paymentMethod.card.brand ELSE Null,
          last4 |-> IF "card" \in DOMAIN paymentMethod
                    THEN paymentMethod.card.last4 ELSE Null]
    ELSE NullObject
PaymentMethodOf(paymentMethod) ==
    IF JsTruthy(paymentMethod) /\ paymentMethod.typeof # "string"
    THEN [brand |-> IF "card" \in DOMAIN paymentMethod
                    THEN paymentMethod.card.brand ELSE Null,
          last4 |-> IF "card" \in DOMAIN paymentMethod
                    THEN paymentMethod.card.last4 ELSE Null]
    ELSE NullObject

SubDataOf(subscription) ==
    [subscriptionId |-> subscription.id,
     status |-> subscription.status,
     priceId |-> subscription.items[1],
     currentPeriodEnd |-> subscription.current_period_end,
     currentPeriodStart |-> subscription.current_period_start,
     cancelAtPeriodEnd |-> subscription.cancel_at_period_end,
     paymentMethod |-> PaymentMethodOf(subscription.default_payment_method)]

Normalize(data) == IF Len(data) = 0 THEN NoneSubData ELSE SubDataOf(data[1])

SyncItem_Stamped(existingUserId, stripeCustomerId, subData, t) ==
    [userId |-> existingUserId, stripeCustomerId |-> stripeCustomerId,
     updatedAt |-> t, createdAt |-> t] @@ subData
SyncItem(existingUserId, stripeCustomerId, subData, t) ==
    [userId |-> existingUserId, stripeCustomerId |-> stripeCustomerId,
     updatedAt |-> t] @@ subData

SyncDone == {s \in SyncIds : sync[s].pc = "done"}

\* the Lambda service starts the handler with the parsed payload
SyncStarted(payload, trigger) ==
    [SyncIdle EXCEPT !.pc = "start", !.event = payload, !.trigger = trigger,
                     !.after = SyncDone]

\* Items?.[0]?.userId: the index does not order the items it returns
FirstUserIds_Any(Items) == Users
FirstUserIds(Items) ==
    IF Items = {} THEN {Undefined} ELSE {item.userId : item \in Items}

\* lines 45-47: !stripeCustomerId
CustomerIdMissing_Never(stripeCustomerId) == FALSE
CustomerIdMissing(stripeCustomerId) == Falsy(stripeCustomerId)

\* lines 67-68: !existingUserId
UserMissing_Never(existingUserId) == FALSE
UserMissing(existingUserId) == Falsy(existingUserId)

\* lines 44-71: validation, then the index query and the userId it yields
SyncResolve(s) ==
    /\ sync[s].pc = "start"
    /\ LET id == Field(sync[s].event, "stripeCustomerId")
           Items == QueryByStripeCustomerId(customerTable, id)
       IN  IF CustomerIdMissing(id)
           THEN sync' = [sync EXCEPT ![s].pc = "done", ![s].stripeCustomerId = id,
                            ![s].result = SyncFailure(ErrCustomerIdRequired)]
           ELSE \E existingUserId \in FirstUserIds(Items) :
                  sync' = [sync EXCEPT
                    ![s].stripeCustomerId = id,
                    ![s].queried = IF Items = {} THEN "miss" ELSE "hit",
                    ![s].existingUserId = existingUserId,
                    ![s].pc = IF UserMissing(existingUserId) THEN "done" ELSE "list",
                    ![s].result = IF UserMissing(existingUserId)
                                  THEN SyncFailure(ErrNoUserFound) ELSE <<>>]
    /\ UNCHANGED <<customerTable, customers, subscriptions, sessions, now, queue,
                   webhook, checkout, lastPut, epoch,
                   successSync, userAttributes,
                   portal, portalSessions>>

\* lines 53-60 rejecting: the catch of lines 133-143
SyncQueryFails(s) ==
    /\ sync[s].pc = "start"
    /\ ~CustomerIdMissing(Field(sync[s].event, "stripeCustomerId"))
    /\ sync' = [sync EXCEPT ![s].pc = "done",
                  ![s].stripeCustomerId = Field(sync[s].event, "stripeCustomerId"),
                  ![s].queried = "failed",
                  ![s].result = SyncFailure(ErrDynamo)]
    /\ UNCHANGED <<customerTable, customers, subscriptions, sessions, now, queue,
                   webhook, checkout, lastPut, epoch,
                   successSync, userAttributes,
                   portal, portalSessions>>

\* the provider lists subscriptions of customers it knows, and rejects others
CustomerExists(id) == \E i \in 1..Len(customers) : customers[i].id = id

\* lines 73-115: the listing and its normalisation
SyncList(s) ==
    /\ sync[s].pc = "list"
    /\ CustomerExists(sync[s].stripeCustomerId)
    /\ LET data == ListSubscriptions(sync[s].stripeCustomerId)
       IN  sync' = [sync EXCEPT ![s].pc = "put", ![s].listed = data,
                      ![s].listedAt = epoch, ![s].listCalls = @ + 1,
                      ![s].subData = Normalize(data)]
    /\ UNCHANGED <<customerTable, customers, subscriptions, sessions, now, queue,
                   webhook, checkout, lastPut, epoch,
                   successSync, userAttributes,
                   portal, portalSessions>>

SyncListFails_ClearsSnapshot(s) ==
    /\ sync[s].pc = "list"
    /\ LET item == SyncItem(sync[s].existingUserId, sync[s].stripeCustomerId,
                            NoneSubData, now)
       IN  /\ customerTable' = PutItem(customerTable, item)
           /\ lastPut' = [lastPut EXCEPT ![item.userId] = s]
           /\ sync' = [sync EXCEPT ![s].pc = "done", ![s].listCalls = @ + 1,
                         ![s].wrote = item,
                         ![s].result = SyncFailure(ErrStripe)]
    /\ UNCHANGED <<customers, subscriptions, sessions, now, queue, webhook,
                   checkout, epoch, successSync, userAttributes, portal,
                   portalSessions>>
SyncListFails(s) ==
    /\ sync[s].pc = "list"
    /\ sync' = [sync EXCEPT ![s].pc = "done", ![s].listCalls = @ + 1,
                  ![s].result = SyncFailure(ErrStripe)]
    /\ UNCHANGED <<customerTable, customers, subscriptions, sessions, now, queue,
                   webhook, checkout, lastPut, epoch,
                   successSync, userAttributes,
                   portal, portalSessions>>

\* lines 117-132: the Put and the success result
SyncPut(s) ==
    /\ sync[s].pc = "put"
    /\ \E t \in now..(IF now < MaxTime THEN now + 1 ELSE now) :
         LET item == SyncItem(sync[s].existingUserId, sync[s].stripeCustomerId,
                              sync[s].subData, t)
         IN  /\ now' = t
             /\ customerTable' = PutItem(customerTable, item)
             /\ lastPut' = [lastPut EXCEPT ![item.userId] = s]
             /\ sync' = [sync EXCEPT ![s].pc = "done", ![s].wrote = item,
                           ![s].before = customerTable[item.userId],
                           ![s].result = SyncSuccess(sync[s].subData)]
    /\ UNCHANGED <<customers, subscriptions, sessions, queue, webhook, checkout,
                   epoch,
                   successSync, userAttributes,
                   portal, portalSessions>>

SyncPutFails(s) ==
    /\ sync[s].pc = "put"
    /\ sync' = [sync EXCEPT ![s].pc = "done", ![s].result = SyncFailure(ErrDynamo)]
    /\ UNCHANGED <<customerTable, customers, subscriptions, sessions, now, queue,
                   webhook, checkout, lastPut, epoch,
                   successSync, userAttributes,
                   portal, portalSessions>>

----------------------------------------------------------------------------
(* The Reconciler's invocation boundary and the provider's own changes *)

\* payloads a caller may hand to the function (JSON objects)
Payloads ==
    {[stripeCustomerId |-> "cus_1"], [stripeCustomerId |-> "cus_2"],
     [stripeCustomerId |-> "u1"], [userId |-> "u1"], [userId |-> "u2"],
     [stripeCustomerId |-> ""], <<>>}

\* a request/response invocation of the function with some payload
InvokeSync(s, payload) ==
    /\ sync[s].pc = "idle"
    /\ sync' = [sync EXCEPT ![s] = SyncStarted(JsonRoundTrip(payload), "direct")]
    /\ UNCHANGED <<customerTable, customers, subscriptions, sessions, now, queue,
                   webhook, checkout, lastPut, epoch,
                   successSync, userAttributes,
                   portal, portalSessions>>

\* the provider's subscriptions of an existing customer change
ProviderChange(i, list) ==
    /\ epoch < MaxProviderChanges
    /\ i \in 1..Len(customers)
    /\ subscriptions[customers[i].id] # list
    /\ subscriptions' = [subscriptions EXCEPT ![customers[i].id] = list]
    /\ epoch' = epoch + 1
    /\ UNCHANGED <<customerTable, customers, sessions, now, queue, sync, webhook,
                   checkout, lastPut,
                   successSync, userAttributes,
                   portal, portalSessions>>

----------------------------------------------------------------------------
(* create-checkout.ts: Checkout Initiation *)

CheckoutIds == {"c1", "c2"}

CheckoutIdle ==
    [pc |-> "idle", user |-> <<>>, stripeCustomerId |-> Null,
     newCustomer |-> Undefined, looked |-> "no", getFailed |-> FALSE,
     wrote |-> FALSE, before |-> NoItem, after |-> {}, response |-> <<>>]

\* authorizer claims a request may carry
Claims ==
    {[sub |-> "u1", email |-> Email("u1")], [sub |-> "u2", email |-> Email("u2")],
     [sub |-> "u1"], <<>>}

Response(statusCode, body) == [statusCode |-> statusCode, body |-> body]
ErrorBody(message) == [error |-> message]

CheckoutDone == {c \in CheckoutIds : checkout[c].pc = "done"}

\* Item?.stripeCustomerId ?? null
StoredCustomerId(Item) ==
    IF Field(Item, "stripeCustomerId") = Undefined
    THEN Null ELSE Field(Item, "stripeCustomerId")

\* lines 26-27: !user?.sub || !user?.email
Unauthenticated_SubOnly(user) == Falsy(Field(user, "sub"))
Unauthenticated(user) == Falsy(Field(user, "sub")) \/ Falsy(Field(user, "email"))

\* lines 26-55: the authorizer check and the Directory lookup
CheckoutGet(c, user) ==
    /\ checkout[c].pc = "idle"
    /\ IF Unauthenticated(user)
       THEN checkout' = [checkout EXCEPT ![c] =
                [CheckoutIdle EXCEPT !.pc = "done", !.user = user,
                    !.after = CheckoutDone,
                    !.response = Response(401, ErrorBody("Unauthorized"))]]
       ELSE LET id == StoredCustomerId(GetItem(customerTable, user.sub))
            IN  checkout' = [checkout EXCEPT ![c] =
                  [CheckoutIdle EXCEPT !.user = user, !.stripeCustomerId = id,
                      !.looked = "yes", !.after = CheckoutDone,
                      !.before = customerTable[user.sub],
                      !.pc = IF Falsy(id) THEN "create" ELSE "session"]]
    /\ UNCHANGED <<customerTable, customers, subscriptions, sessions, now, queue,
                   sync, webhook, lastPut, epoch,
                   successSync, userAttributes,
                   portal, portalSessions>>

\* lines 53-55: the lookup rejects; the error is logged and the handler goes on
CheckoutGetFails(c, user) ==
    /\ checkout[c].pc = "idle"
    /\ ~Unauthenticated(user)
    /\ checkout' = [checkout EXCEPT ![c] =
          [CheckoutIdle EXCEPT !.user = user, !.stripeCustomerId = Null,
              !.looked = "failed", !.getFailed = TRUE, !.after = CheckoutDone,
              !.before = customerTable[user.sub], !.pc = "create"]]
    /\ UNCHANGED <<customerTable, customers, subscriptions, sessions, now, queue,
                   sync, webhook, lastPut, epoch,
                   successSync, userAttributes,
                   portal, portalSessions>>

\* lines 58-68: stripe.customers.create
CheckoutCreateCustomer(c) ==
    /\ checkout[c].pc = "create"
    /\ Len(customers) < MaxCustomers
    /\ LET id == CustomerIdSeq[Len(customers) + 1]
       IN  /\ customers' = Append(customers,
                  [id |-> id, email |-> checkout[c].user.email,
                   metadata |-> [userId |-> checkout[c].user.sub], by |-> c])
           /\ checkout' = [checkout EXCEPT ![c].pc = "put", ![c].newCustomer = id]
    /\ UNCHANGED <<customerTable, subscriptions, sessions, now, queue, sync,
                   webhook, lastPut, epoch,
                   successSync, userAttributes,
                   portal, portalSessions>>

\* lines 69-75
CheckoutCreateCustomerFails_RecordFirst(c) ==
    /\ checkout[c].pc = "create"
    /\ customerTable' = PutItem(customerTable,
          [userId |-> checkout[c].user.sub, stripeCustomerId |-> Null,
           email |-> checkout[c].user.email, createdAt |-> now])
    /\ lastPut' = [lastPut EXCEPT ![checkout[c].user.sub] = c]
    /\ checkout' = [checkout EXCEPT ![c].pc = "done",
          ![c].response = Response(500, ErrorBody("Failed to create stripe customer"))]
    /\ UNCHANGED <<customers, subscriptions, sessions, now, queue, sync, webhook,
                   successSync, userAttributes, epoch, portal, portalSessions>>
CheckoutCreateCustomerFails_GoesOn(c) ==
    /\ checkout[c].pc = "create"
    /\ checkout' = [checkout EXCEPT ![c].pc = "put",
          ![c].newCustomer = CustomerIdSeq[Len(customers) + 1]]
    /\ UNCHANGED <<customerTable, customers, subscriptions, sessions, now, queue,
                   sync, webhook, successSync, userAttributes, lastPut, epoch,
                   portal, portalSessions>>
CheckoutCreateCustomerFails(c) ==
    /\ checkout[c].pc = "create"
    /\ checkout' = [checkout EXCEPT ![c].pc = "done",
          ![c].response = Response(500, ErrorBody("Failed to create stripe customer"))]
    /\ UNCHANGED <<customerTable, customers, subscriptions, sessions, now, queue,
                   sync, webhook, lastPut, epoch,
                   successSync, userAttributes,
                   portal, portalSessions>>

CheckoutItem(user, newCustomerId, t) ==
    [userId |-> user.sub, stripeCustomerId |-> newCustomerId,
     email |-> user.email, createdAt |-> t]

\* lines 77-90: the new record is stored
CheckoutPut(c) ==
    /\ checkout[c].pc = "put"
    /\ \E t \in now..(IF now < MaxTime THEN now + 1 ELSE now) :
         LET item == CheckoutItem(checkout[c].user, checkout[c].newCustomer, t)
         IN  /\ now' = t
             /\ customerTable' = PutItem(customerTable, item)
             /\ lastPut' = [lastPut EXCEPT ![item.userId] = c]
             /\ checkout' = [checkout EXCEPT ![c].pc = "session",
                   ![c].wrote = TRUE,
                   ![c].stripeCustomerId = checkout[c].newCustomer]
    /\ UNCHANGED <<customers, subscriptions, sessions, queue, sync, webhook, epoch,
                   successSync, userAttributes,
                   portal, portalSessions>>

\* the Put rejects: the outer catch of lines 119-125
CheckoutPutFails_Stored(c) ==
    /\ checkout[c].pc = "put"
    /\ customerTable' = PutItem(customerTable,
          CheckoutItem(checkout[c].user, checkout[c].newCustomer, now))
    /\ lastPut' = [lastPut EXCEPT ![checkout[c].user.sub] = c]
    /\ checkout' = [checkout EXCEPT ![c].pc = "done", ![c].wrote = TRUE,
          ![c].response = Response(500, ErrorBody("Failed to create checkout session"))]
    /\ UNCHANGED <<customers, subscriptions, sessions, now, queue, sync, webhook,
                   successSync, userAttributes, epoch, portal, portalSessions>>
CheckoutPutFails(c) ==
    /\ checkout[c].pc = "put"
    /\ checkout' = [checkout EXCEPT ![c].pc = "done",
          ![c].response = Response(500, ErrorBody("Failed to create checkout session"))]
    /\ UNCHANGED <<customerTable, customers, subscriptions, sessions, now, queue,
                   sync, webhook, lastPut, epoch,
                   successSync, userAttributes,
                   portal, portalSessions>>

\* lines 92-117: stripe.checkout.sessions.create and the 200 response
CheckoutSession(c) ==
    /\ checkout[c].pc = "session"
    /\ sessions' = sessions \cup
          {[id |-> c, customer |-> checkout[c].stripeCustomerId,
            mode |-> "subscription"]}
    /\ checkout' = [checkout EXCEPT ![c].pc = "done",
          ![c].response = Response(200, [url |-> c])]
    /\ UNCHANGED <<customerTable, customers, subscriptions, now, queue, sync,
                   webhook, lastPut, epoch,
                   successSync, userAttributes,
                   portal, portalSessions>>

CheckoutSessionFails(c) ==
    /\ checkout[c].pc = "session"
    /\ checkout' = [checkout EXCEPT ![c].pc = "done",
          ![c].response = Response(500, ErrorBody("Failed to create checkout session"))]
    /\ UNCHANGED <<customerTable, customers, subscriptions, sessions, now, queue,
                   sync, webhook, lastPut, epoch,
                   successSync, userAttributes,
                   portal, portalSessions>>

CheckoutStep(c) ==
    \/ \E user \in Claims : CheckoutGet(c, user)
    \/ \E user \in Claims : CheckoutGetFails(c, user)
    \/ CheckoutCreateCustomer(c)
    \/ CheckoutCreateCustomerFails(c)
    \/ CheckoutPut(c)
    \/ CheckoutPutFails(c)
    \/ CheckoutSession(c)
    \/ CheckoutSessionFails(c)

SyncStep(s) ==
    \/ SyncResolve(s)
    \/ SyncQueryFails(s)
    \/ SyncList(s)
    \/ SyncListFails(s)
    \/ SyncPut(s)
    \/ SyncPutFails(s)

----------------------------------------------------------------------------
(* stripe-webhook: Webhook Ingestion *)

WebhookIds == {"w1"}

WebhookIdle ==
    [pc |-> "idle", request |-> <<>>, customerId |-> Undefined,
     response |-> <<>>]

\* Events we care about
allowedEvents ==
    {"checkout.session.completed",
     "customer.subscription.created",
     "customer.subscription.updated",
     "customer.subscription.deleted",
     "customer.subscription.paused",
     "customer.subscription.resumed",
     "customer.subscription.pending_update_applied",
     "customer.subscription.pending_update_expired",
     "customer.subscription.trial_will_end",
     "invoice.paid",
     "invoice.payment_failed",
     "invoice.payment_action_required",
     "invoice.upcoming",
     "invoice.marked_uncollectible",
     "invoice.payment_succeeded",
     "payment_intent.succeeded",
     "payment_intent.payment_failed",
     "payment_intent.canceled"}

StripeEvent(type, object) == [type |-> type, data |-> [object |-> object]]

\* events the provider may deliver
Events ==
    {StripeEvent("customer.subscription.updated", [customer |-> JsString("cus_1")]),
     StripeEvent("invoice.paid", [customer |-> JsString("cus_2")]),
     StripeEvent("customer.subscription.deleted", [customer |-> JsObject("cus_1")]),
     StripeEvent("checkout.session.completed", [customer |-> JsNull]),
     StripeEvent("payment_intent.succeeded", <<>>),
     StripeEvent("charge.succeeded", [customer |-> JsString("cus_1")]),
     StripeEvent("customer.created", <<>>)}

STRIPE_WEBHOOK_SECRET == "whsec_configured"

\* the signature the provider computes over a raw body with a signing secret
SignatureOf(body, secret) ==
    IF secret = STRIPE_WEBHOOK_SECRET THEN "t=1,v1=configured" ELSE "t=1,v1=other"

\* stripe.webhooks.constructEvent accepts: the header matches the raw body
SignatureVerifies_Always(body, signature, secret) == TRUE
SignatureVerifies(body, signature, secret) == signature = SignatureOf(body, secret)

Headers ==
    {<<>>, ("stripe-signature" :> ""),
     ("stripe-signature" :> SignatureOf("body", "whsec_other")),
     ("stripe-signature" :> SignatureOf("body", STRIPE_WEBHOOK_SECRET))}

Requests == {[headers |-> h, body |-> e] : h \in Headers, e \in Events}

ErrNoSignature == "No signature provided"
ErrSignature == "No signatures found matching the expected signature for payload"
ErrInvalidCustomer == "Invalid customer ID in webhook"
ErrInvoke == "Lambda invoke failed"

\* allowedEvents.includes(stripeEvent.type)
IsAllowed_Any(type) == TRUE
IsAllowed(type) == type \in allowedEvents

\* data.object.customer
CustomerOf(stripeEvent) ==
    IF "customer" \in DOMAIN stripeEvent.data.object
    THEN stripeEvent.data.object.customer ELSE JsUndefined

\* lines 182-220: what the handler decides before the invoke
\* ("dispatch" when it goes on to send, else the response it returns)
WebhookDecision(request) ==
    LET signature == Field(request.headers, "stripe-signature")
        stripeEvent == request.body
    IN  IF Falsy(signature)
        THEN Response(400, ErrorBody(ErrNoSignature))
        ELSE IF ~SignatureVerifies(request.body, signature, STRIPE_WEBHOOK_SECRET)
        THEN Response(400, ErrorBody(ErrSignature))
        ELSE IF ~IsAllowed(stripeEvent.type)
        THEN Response(200, [received |-> TRUE, processed |-> FALSE])
        ELSE IF CustomerOf(stripeEvent).typeof # "string"
        THEN Response(500, ErrorBody(ErrInvalidCustomer))
        ELSE [dispatch |-> CustomerOf(stripeEvent).value]

\* lines 222-231: the payload of the invoke command
DispatchPayload(customerId) == [customerId |-> customerId]

\* lines 182-234: the request is handled up to the await of the invoke, which
\* the Lambda service accepts (InvocationType "Event")
WebhookReceive(w, request) ==
    /\ webhook[w].pc = "idle"
    /\ LET d == WebhookDecision(request)
       IN  IF "dispatch" \in DOMAIN d
           THEN /\ webhook' = [webhook EXCEPT ![w] =
                      [WebhookIdle EXCEPT !.pc = "sent", !.request = request,
                          !.customerId = d.dispatch]]
                /\ queue' = queue \cup
                      {[from |-> w,
                        payload |-> JsonRoundTrip(DispatchPayload(d.dispatch))]}
           ELSE /\ webhook' = [webhook EXCEPT ![w] =
                      [WebhookIdle EXCEPT !.pc = "done", !.request = request,
                          !.response = d]]
                /\ UNCHANGED queue
    /\ UNCHANGED <<customerTable, customers, subscriptions, sessions, now, sync,
                   checkout, lastPut, epoch,
                   successSync, userAttributes,
                   portal, portalSessions>>

\* the invoke rejects: the catch of lines 243-257
WebhookInvokeFails(w, request) ==
    /\ webhook[w].pc = "idle"
    /\ "dispatch" \in DOMAIN WebhookDecision(request)
    /\ webhook' = [webhook EXCEPT ![w] =
          [WebhookIdle EXCEPT !.pc = "done", !.request = request,
              !.customerId = WebhookDecision(request).dispatch,
              !.response = Response(500, ErrorBody(ErrInvoke))]]
    /\ UNCHANGED <<customerTable, customers, subscriptions, sessions, now, queue,
                   sync, checkout, lastPut, epoch,
                   successSync, userAttributes,
                   portal, portalSessions>>

\* the run an accepted invoke of w has started, SyncIdle while it is queued
RunOf(w) ==
    IF \E s \in SyncIds : sync[s].trigger = w
    THEN sync[CHOOSE s \in SyncIds : sync[s].trigger = w]
    ELSE SyncIdle

\* line 225: InvocationType of the invoke command
WebhookInvocationType_RequestResponse == "RequestResponse"
WebhookInvocationType == "Event"

\* the awaited invoke settles: an "Event" invoke once the service has accepted
\* it, a "RequestResponse" invoke when the function has returned
InvokeSettled(InvocationType, run) ==
    InvocationType = "Event" \/ run.pc = "done"

\* lines 234-242: the invoke settles and the handler answers
WebhookReturn(w) ==
    /\ webhook[w].pc = "sent"
    /\ InvokeSettled(WebhookInvocationType, RunOf(w))
    /\ webhook' = [webhook EXCEPT ![w].pc = "done",
                      ![w].response = Response(200, [received |-> TRUE])]
    /\ UNCHANGED <<customerTable, customers, subscriptions, sessions, now, queue,
                   sync, checkout, lastPut, epoch,
                   successSync, userAttributes,
                   portal, portalSessions>>

\* the Lambda service starts the function for an accepted async invoke
Deliver(s) ==
    /\ sync[s].pc = "idle"
    /\ \E m \in queue :
         /\ queue' = queue \ {m}
         /\ sync' = [sync EXCEPT ![s] = SyncStarted(m.payload, m.from)]
    /\ UNCHANGED <<customerTable, customers, subscriptions, sessions, now,
                   webhook, checkout, lastPut, epoch,
                   successSync, userAttributes,
                   portal, portalSessions>>

WebhookStep(w) ==
    \/ \E request \in Requests : WebhookReceive(w, request)
    \/ \E request \in Requests : WebhookInvokeFails(w, request)
    \/ WebhookReturn(w)

----------------------------------------------------------------------------
(* success-stripe-sync: Post-checkout Sync, in its two handlers *)

SuccessIds == {"p1"}

SuccessIdle ==
    [pc |-> "idle", handler |-> "none", user |-> <<>>, payload |-> <<>>,
     response |-> <<>>]

ErrSyncFailed == "Failed to sync stripe data"

\* part_004 lines 52-58: the payload of the invoke command
SuccessPayload(Item) == [stripeCustomerId |-> Field(Item, "stripeCustomerId")]

\* success-stripe-sync.ts lines 13-15: the payload of lambda.invoke
SuccessPayloadV2(user) == [stripeCustomerId |-> Field(user, "sub")]

\* part_004 lines 19-58: the authorizer check, then the Directory lookup
\* resolves and the invoke is sent
SuccessGet(p, user) ==
    /\ successSync[p].pc = "idle"
    /\ LET Item == GetItem(customerTable, Field(user, "sub"))
           started == [SuccessIdle EXCEPT !.handler = "v3", !.user = user]
       IN  successSync' = [successSync EXCEPT ![p] =
             IF Falsy(Field(user, "sub"))
             THEN [started EXCEPT !.pc = "done",
                      !.response = Response(401, ErrorBody("Unauthorized"))]
             ELSE IF Falsy(Field(Item, "stripeCustomerId"))
             THEN [started EXCEPT !.pc = "done",
                      !.response =
                          Response(404, ErrorBody("No stripe customer found"))]
             ELSE [started EXCEPT !.pc = "invoke",
                      !.payload = SuccessPayload(Item)]]
    /\ UNCHANGED <<customerTable, customers, subscriptions, sessions, now, queue,
                   sync, webhook, checkout, userAttributes, lastPut, epoch,
                   portal, portalSessions>>

\* part_004 lines 32-37 rejecting: the catch of lines 80-90
SuccessGetFails(p, user) ==
    /\ successSync[p].pc = "idle"
    /\ ~Falsy(Field(user, "sub"))
    /\ successSync' = [successSync EXCEPT ![p] =
          [SuccessIdle EXCEPT !.handler = "v3", !.user = user, !.pc = "done",
              !.response = Response(500, ErrorBody(ErrSyncFailed))]]
    /\ UNCHANGED <<customerTable, customers, subscriptions, sessions, now, queue,
                   sync, webhook, checkout, userAttributes, lastPut, epoch,
                   portal, portalSessions>>

\* success-stripe-sync.ts lines 8-16: the claims are read (user.sub throws
\* when there are none: the catch of lines 27-35) and the invoke is sent
SuccessStartV2(p, user) ==
    /\ successSync[p].pc = "idle"
    /\ LET started == [SuccessIdle EXCEPT !.handler = "v2", !.user = user]
       IN  successSync' = [successSync EXCEPT ![p] =
             IF user = <<>>
             THEN [started EXCEPT !.pc = "done",
                      !.response = Response(500, ErrorBody(ErrSyncFailed))]
             ELSE [started EXCEPT !.pc = "invoke",
                      !.payload = SuccessPayloadV2(user)]]
    /\ UNCHANGED <<customerTable, customers, subscriptions, sessions, now, queue,
                   sync, webhook, checkout, userAttributes, lastPut, epoch,
                   portal, portalSessions>>

\* the Lambda service starts the function for the request/response invoke
SuccessInvoke(p, s) ==
    /\ successSync[p].pc = "invoke"
    /\ sync[s].pc = "idle"
    /\ sync' = [sync EXCEPT
          ![s] = SyncStarted(JsonRoundTrip(successSync[p].payload), p)]
    /\ successSync' = [successSync EXCEPT ![p].pc = "wait"]
    /\ UNCHANGED <<customerTable, customers, subscriptions, sessions, now, queue,
                   webhook, checkout, userAttributes, lastPut, epoch,
                   portal, portalSessions>>

\* the invoke rejects, or reports a FunctionError or no Payload (part_004
\* lines 60-67): the catch
SuccessInvokeFails(p) ==
    /\ successSync[p].pc = "invoke"
    /\ successSync' = [successSync EXCEPT ![p].pc = "done",
          ![p].response = Response(500, ErrorBody(ErrSyncFailed))]
    /\ UNCHANGED <<customerTable, customers, subscriptions, sessions, now, queue,
                   sync, webhook, checkout, userAttributes, lastPut, epoch,
                   portal, portalSessions>>

\* part_004 line 69: JSON.parse of the Payload, the JSON of the LambdaResponse
\* the function returned (an undefined error message is not serialised)
ParsePayload(result) ==
    LET keep == {k \in DOMAIN result : k = "error" => result[k] # Undefined}
    IN  [k \in keep |-> result[k]]

\* part_004 line 54: InvocationType of the invoke command
SuccessInvocationType_Event == "Event"
SuccessInvocationType == "RequestResponse"

\* part_004 lines 69-79 (success-stripe-sync.ts lines 18-26): the invoke
\* settles and the function's parsed Payload is relayed with status 200
SuccessReturn(p) ==
    /\ successSync[p].pc = "wait"
    /\ InvokeSettled(SuccessInvocationType, RunOf(p))
    /\ successSync' = [successSync EXCEPT ![p].pc = "done",
          ![p].response = Response(200, ParsePayload(RunOf(p).result))]
    /\ UNCHANGED <<customerTable, customers, subscriptions, sessions, now, queue,
                   sync, webhook, checkout, userAttributes, lastPut, epoch,
                   portal, portalSessions>>

SuccessStep(p) ==
    \/ \E user \in Claims : SuccessGet(p, user)
    \/ \E user \in Claims : SuccessGetFails(p, user)
    \/ \E user \in Claims : SuccessStartV2(p, user)
    \/ \E s \in SyncIds : SuccessInvoke(p, s)
    \/ SuccessInvokeFails(p)
    \/ SuccessReturn(p)

----------------------------------------------------------------------------
(* manage-subscription: the Billing Portal Launcher *)

PortalIds == {"m1", "m2"}

PortalIdle ==
    [pc |-> "idle", authorizer |-> <<>>, cognitoSub |-> Undefined,
     stripeCustomerId |-> Undefined, looked |-> "no", response |-> <<>>]

\* requestContext.authorizer of a request: with claims (which may lack the
\* sub), or without any
Authorizers == {[claims |-> c] : c \in Claims} \cup {<<>>}

ErrPortalUnauthorized == "Unauthorized - No user ID found"
ErrPortalNoCustomer == "No Stripe customer found for this user"
ErrPortalFailed == "Failed to create billing portal session"

\* line 215: !customerResult.Item?.stripeCustomerId
PortalCustomerMissing_Never(Item) == FALSE
PortalCustomerMissing(Item) == Falsy(Field(Item, "stripeCustomerId"))

\* lines 186-227: authorizer.claims.sub is read (a TypeError when there are
\* no claims: the catch of lines 254-266), then the Directory lookup resolves
PortalGet(m, authorizer) ==
    /\ portal[m].pc = "idle"
    /\ LET started == [PortalIdle EXCEPT !.authorizer = authorizer]
       IN  portal' = [portal EXCEPT ![m] =
             IF "claims" \notin DOMAIN authorizer
             THEN [started EXCEPT !.pc = "done",
                      !.response = Response(500, ErrorBody(ErrPortalFailed))]
             ELSE LET cognitoSub == Field(authorizer.claims, "sub")
                      Item == GetItem(customerTable, cognitoSub)
                  IN  IF Falsy(cognitoSub)
                      THEN [started EXCEPT !.pc = "done",
                               !.cognitoSub = cognitoSub,
                               !.response =
                                   Response(401, ErrorBody(ErrPortalUnauthorized))]
                      ELSE IF PortalCustomerMissing(Item)
                      THEN [started EXCEPT !.pc = "done",
                               !.cognitoSub = cognitoSub, !.looked = "yes",
                               !.response =
                                   Response(404, ErrorBody(ErrPortalNoCustomer))]
                      ELSE [started EXCEPT !.pc = "session",
                               !.cognitoSub = cognitoSub, !.looked = "yes",
                               !.stripeCustomerId =
                                   Field(Item, "stripeCustomerId")]]
    /\ UNCHANGED <<customerTable, customers, subscriptions, sessions, now, queue,
                   sync, webhook, checkout, successSync, userAttributes,
                   portalSessions, lastPut, epoch>>

\* lines 205-213 rejecting: the catch of lines 254-266
PortalGetFails(m, authorizer) ==
    /\ portal[m].pc = "idle"
    /\ "claims" \in DOMAIN authorizer
    /\ ~Falsy(Field(authorizer.claims, "sub"))
    /\ portal' = [portal EXCEPT ![m] =
          [PortalIdle EXCEPT !.authorizer = authorizer, !.pc = "done",
              !.cognitoSub = authorizer.claims.sub, !.looked = "failed",
              !.response = Response(500, ErrorBody(ErrPortalFailed))]]
    /\ UNCHANGED <<customerTable, customers, subscriptions, sessions, now, queue,
                   sync, webhook, checkout, successSync, userAttributes,
                   portalSessions, lastPut, epoch>>

\* lines 233-253: stripe.billingPortal.sessions.create and the 200 response
PortalSession_Records(m) ==
    /\ portal[m].pc = "session"
    /\ portalSessions' = portalSessions \cup
          {[id |-> m, customer |-> portal[m].stripeCustomerId]}
    /\ customerTable' = [customerTable EXCEPT
          ![portal[m].cognitoSub] = [portalSession |-> m] @@ @]
    /\ portal' = [portal EXCEPT ![m].pc = "done",
          ![m].response = Response(200, [url |-> m])]
    /\ UNCHANGED <<customers, subscriptions, sessions, now, queue,
                   sync, webhook, checkout, successSync, userAttributes,
                   lastPut, epoch>>
PortalSession(m) ==
    /\ portal[m].pc = "session"
    /\ portalSessions' = portalSessions \cup
          {[id |-> m, customer |-> portal[m].stripeCustomerId]}
    /\ portal' = [portal EXCEPT ![m].pc = "done",
          ![m].response = Response(200, [url |-> m])]
    /\ UNCHANGED <<customerTable, customers, subscriptions, sessions, now, queue,
                   sync, webhook, checkout, successSync, userAttributes,
                   lastPut, epoch>>

\* the session creation rejects: the catch of lines 254-266
PortalSessionFails(m) ==
    /\ portal[m].pc = "session"
    /\ portal' = [portal EXCEPT ![m].pc = "done",
          ![m].response = Response(500, ErrorBody(ErrPortalFailed))]
    /\ UNCHANGED <<customerTable, customers, subscriptions, sessions, now, queue,
                   sync, webhook, checkout, successSync, userAttributes,
                   portalSessions, lastPut, epoch>>

PortalStep(m) ==
    \/ \E authorizer \in Authorizers : PortalGet(m, authorizer)
    \/ \E authorizer \in Authorizers : PortalGetFails(m, authorizer)
    \/ PortalSession(m)
    \/ PortalSessionFails(m)

----------------------------------------------------------------------------
(* Cognito user pool *)

\* a user whose custom attributes were never set
NoAttributes == <<>>

----------------------------------------------------------------------------
(* Specifications *)

Init ==
    /\ customerTable = [u \in Users |-> NoItem]
    /\ customers = <<>>
    /\ subscriptions = [c \in CustomerIds |-> <<>>]
    /\ sessions = {}
    /\ now = 1
    /\ queue = {}
    /\ sync = [s \in SyncIds |-> SyncIdle]
    /\ webhook = [w \in WebhookIds |-> WebhookIdle]
    /\ checkout = [c \in CheckoutIds |-> CheckoutIdle]
    /\ successSync = [p \in SuccessIds |-> SuccessIdle]
    /\ userAttributes = [u \in Users |-> NoAttributes]
    /\ portal = [m \in PortalIds |-> PortalIdle]
    /\ portalSessions = {}
    /\ lastPut = [u \in Users |-> "none"]
    /\ epoch = 0

\* the Reconciler under direct invocations, after one checkout
NextSync ==
    \/ CheckoutStep("c1")
    \/ \E s \in SyncIds : \E payload \in Payloads : InvokeSync(s, payload)
    \/ \E s \in SyncIds : SyncStep(s)
    \/ \E i \in 1..MaxCustomers : \E list \in SubscriptionLists :
          ProviderChange(i, list)

SpecSync == Init /\ [][NextSync]_vars

\* Webhook Ingestion and the runs it dispatches, beside a direct invocation
NextWebhook ==
    \/ CheckoutStep("c1")
    \/ \E w \in WebhookIds : WebhookStep(w)
    \/ \E s \in SyncIds : Deliver(s)
    \/ \E payload \in Payloads : InvokeSync("s2", payload)
    \/ \E s \in SyncIds : SyncStep(s)

SpecWebhook == Init /\ [][NextWebhook]_vars

\* Checkout Initiation, overlapping and in succession, beside a Reconciler run
NextCheckout ==
    \/ \E c \in CheckoutIds : CheckoutStep(c)
    \/ \E payload \in Payloads : InvokeSync("s1", payload)
    \/ SyncStep("s1")

SpecCheckout == Init /\ [][NextCheckout]_vars

\* Post-checkout Sync and the run it invokes, after one checkout and beside
\* a direct invocation
NextSuccess ==
    \/ CheckoutStep("c1")
    \/ \E p \in SuccessIds : SuccessStep(p)
    \/ \E payload \in Payloads : InvokeSync("s2", payload)
    \/ \E s \in SyncIds : SyncStep(s)
    \/ \E i \in 1..MaxCustomers : \E list \in SubscriptionLists :
          ProviderChange(i, list)

SpecSuccess == Init /\ [][NextSuccess]_vars

\* the Billing Portal Launcher, beside a checkout and a Reconciler run
NextPortal ==
    \/ CheckoutStep("c1")
    \/ \E m \in PortalIds : PortalStep(m)
    \/ \E payload \in Payloads : InvokeSync("s1", payload)
    \/ SyncStep("s1")

SpecPortal == Init /\ [][NextPortal]_vars

\* one Reconciler run at a time over every kind of subscription the provider
\* may list
NextNormalize ==
    \/ CheckoutStep("c1")
    \/ \E payload \in Payloads : InvokeSync("s1", payload)
    \/ SyncStep("s1")
    \/ \E i \in 1..MaxCustomers : \E list \in PaymentMethodLists :
          ProviderChange(i, list)

SpecNormalize == Init /\ [][NextNormalize]_vars

----------------------------------------------------------------------------
(* Properties *)

SnapshotFields ==
    {"subscriptionId", "status", "priceId", "currentPeriodEnd",
     "currentPeriodStart", "cancelAtPeriodEnd", "paymentMethod"}

\* the item's snapshot names a subscription
HoldsSubscription(item) ==
    /\ ~Falsy(Field(item, "subscriptionId"))
    /\ ~Falsy(Field(item, "priceId"))

\* the run has returned a success result
Succeeded(s) == sync[s].pc = "done" /\ sync[s].result.success

\* a successful run that was handed zero subscriptions and whose Put is the
\* last one on a record that held a subscription
ClearingRun(s) ==
    /\ Succeeded(s)
    /\ Len(sync[s].listed) = 0
    /\ HoldsSubscription(sync[s].before)
    /\ lastPut[sync[s].existingUserId] = s

\* C1: a successful Reconciler run that found zero subscriptions leaves the
\* record, which held a subscription before, with every snapshot field in its
\* null/none state: nothing of the earlier snapshot survives.
C1_SnapshotCleared ==
    \A s \in SyncIds :
        ClearingRun(s) =>
            LET r == customerTable[sync[s].existingUserId]
            IN  /\ SnapshotFields \subseteq DOMAIN r
                /\ r.subscriptionId = Null
                /\ r.priceId = Null
                /\ r.currentPeriodStart = Null
                /\ r.currentPeriodEnd = Null
                /\ r.paymentMethod = NullObject
                /\ r.status = "none"
                /\ r.cancelAtPeriodEnd = FALSE

C1_Witness ==
    \E s \in SyncIds :
        /\ ClearingRun(s)
        /\ sync[s].after # {}
        /\ sync[s].before.status = "active"
        /\ customerTable[sync[s].existingUserId].status = "none"

\* what the webhook's transport holds or has delivered for invocation w
Dispatched(w) ==
    \/ \E m \in queue : m.from = w
    \/ \E s \in SyncIds : sync[s].trigger = w

\* C2: the run started by the message a webhook dispatches for customer c
\* resolves c: it does not fail input validation, and it fails only when c has
\* no record or a collaborator call fails.
C2_DispatchIdentifiesCustomer ==
    \A s \in SyncIds :
        (sync[s].pc = "done" /\ sync[s].trigger \in WebhookIds) =>
            /\ sync[s].stripeCustomerId = webhook[sync[s].trigger].customerId
            /\ sync[s].result # SyncFailure(ErrCustomerIdRequired)
            /\ \/ sync[s].result.success
               \/ sync[s].result.error \in {ErrNoUserFound, ErrDynamo, ErrStripe}

\* the provider customers created for user u
CustomersOf(u) ==
    {i \in 1..Len(customers) : customers[i].metadata.userId = u}

\* c then d: two calls for the same user, the first on an empty Directory,
\* the second begun after the first returned, both answered 200
InSuccession(c, d) ==
    /\ c # d
    /\ checkout[c].pc = "done" /\ checkout[d].pc = "done"
    /\ checkout[c].response.statusCode = 200
    /\ checkout[d].response.statusCode = 200
    /\ checkout[c].user = checkout[d].user
    /\ checkout[c].after = {}
    /\ c \in checkout[d].after

\* C3: Checkout Initiation called twice in succession for a new user creates
\* exactly one provider customer and one Directory record; the second call
\* creates no customer and writes nothing.
C3_TwoCallsOneCustomer ==
    \A c, d \in CheckoutIds :
        InSuccession(c, d) =>
            /\ Cardinality(CustomersOf(checkout[c].user.sub)) = 1
            /\ checkout[d].newCustomer = Undefined
            /\ ~checkout[d].wrote
            /\ checkout[d].stripeCustomerId = checkout[c].stripeCustomerId

\* C4: once a record has a stripeCustomerId, no step changes it.
C4_CustomerIdSetOnce ==
    [][\A u \in Users :
          Field(customerTable[u], "stripeCustomerId") # Undefined =>
              Field(customerTable'[u], "stripeCustomerId")
                  = Field(customerTable[u], "stripeCustomerId")]_vars

\* the request carries the signature of its body under the configured secret
GenuineSignature(request) ==
    /\ "stripe-signature" \in DOMAIN request.headers
    /\ request.headers["stripe-signature"]
           = SignatureOf(request.body, STRIPE_WEBHOOK_SECRET)

\* invocation w wrote nothing to the Directory or the provider
NoWritesBy(w) ==
    /\ \A u \in Users : lastPut[u] # w
    /\ \A i \in 1..Len(customers) : customers[i].by # w
    /\ \A x \in sessions : x.id # w

\* C5: a webhook whose signature header is absent or does not verify is
\* answered 400 with an error body, dispatches nothing and writes nothing;
\* nothing is ever dispatched for a request that did not verify.
C5_BadSignatureRejected ==
    \A w \in WebhookIds :
        (webhook[w].pc # "idle" /\ ~GenuineSignature(webhook[w].request)) =>
            /\ webhook[w].pc = "done"
            /\ webhook[w].response.statusCode = 400
            /\ "error" \in DOMAIN webhook[w].response.body
            /\ ~Dispatched(w)
            /\ NoWritesBy(w)

C5_Witness ==
    \E w \in WebhookIds :
        /\ webhook[w].pc = "done"
        /\ Field(webhook[w].request.headers, "stripe-signature")
               = SignatureOf(webhook[w].request.body, "whsec_other")
        /\ webhook[w].request.body.type \in allowedEvents
        /\ webhook[w].response.statusCode = 400

\* event types of the deliveries that are outside the allow-list
UnlistedTypes == {"charge.succeeded", "customer.created"}

\* C6: a correctly signed webhook of a type outside the allow-list is
\* answered 200 {received: true, processed: false} and dispatches nothing;
\* only allow-listed types are ever dispatched.
C6_UnlistedEventAcknowledged ==
    \A w \in WebhookIds :
        /\ (/\ webhook[w].pc # "idle"
            /\ GenuineSignature(webhook[w].request)
            /\ webhook[w].request.body.type \in UnlistedTypes) =>
                /\ webhook[w].pc = "done"
                /\ webhook[w].response
                       = Response(200, [received |-> TRUE, processed |-> FALSE])
                /\ ~Dispatched(w)
        /\ Dispatched(w) => webhook[w].request.body.type \notin UnlistedTypes

C6_Witness ==
    \E w \in WebhookIds :
        /\ webhook[w].pc = "done"
        /\ GenuineSignature(webhook[w].request)
        /\ webhook[w].request.body.type = "charge.succeeded"
        /\ webhook[w].response.body = [received |-> TRUE, processed |-> FALSE]

\* C7: once the one-way invoke is accepted the responder can return at once,
\* whatever the state of the dispatched run, and what it returns is 200
\* {received: true} whether that run is queued, running, succeeded or failed.
C7_ResponderDoesNotWait ==
    \A w \in WebhookIds :
        /\ webhook[w].pc = "sent" => ENABLED WebhookReturn(w)
        /\ (webhook[w].pc = "done" /\ Dispatched(w)) =>
               webhook[w].response = Response(200, [received |-> TRUE])

C7_Witness ==
    \E w \in WebhookIds :
        /\ webhook[w].pc = "done"
        /\ webhook[w].response.statusCode = 200
        /\ \E m \in queue : m.from = w

\* the run queried the index with a non-empty id and got no item
IndexMiss(s) ==
    /\ sync[s].pc = "done"
    /\ ~Falsy(Field(sync[s].event, "stripeCustomerId"))
    /\ sync[s].queried = "miss"

\* the run called the provider or wrote to the Directory
NoEffects(s) ==
    /\ sync[s].listCalls = 0
    /\ sync[s].wrote = NoItem
    /\ \A u \in Users : lastPut[u] # s

ByUserId(s) ==
    /\ sync[s].pc = "done"
    /\ ~Falsy(Field(sync[s].event, "userId"))
    /\ "stripeCustomerId" \notin DOMAIN sync[s].event

\* C9: a run given {userId} returns not-found when the record is absent or
\* has no stripeCustomerId, and otherwise resolves the pair by primary key
\* and goes on to fetch and persist, failing only if a collaborator fails.
C9_UserIdResolution ==
    \A s \in SyncIds :
        ByUserId(s) =>
            LET Item == GetItem(customerTable, sync[s].event.userId)
            IN  /\ Falsy(StoredCustomerId(Item)) =>
                       sync[s].result = SyncFailure(ErrNoUserFound)
                /\ ~Falsy(StoredCustomerId(Item)) =>
                       \/ sync[s].result.success
                       \/ sync[s].result.error
                              \in {ErrNoUserFound, ErrDynamo, ErrStripe}

\* the item without its updatedAt attribute
WithoutUpdatedAt(item) ==
    [k \in DOMAIN item \ {"updatedAt"} |-> item[k]]

\* s then t: two successful runs for one customer, the second begun after
\* the first returned, with no change at the provider between their listings
Repeated(s, t) ==
    /\ s # t
    /\ Succeeded(s) /\ Succeeded(t)
    /\ s \in sync[t].after
    /\ sync[s].stripeCustomerId = sync[t].stripeCustomerId
    /\ sync[s].listedAt = sync[t].listedAt

\* C10: two runs in succession over an unchanged provider state return equal
\* snapshots, and the record after the second equals the record after the
\* first in every attribute except updatedAt.
C10_Idempotent ==
    \A s, t \in SyncIds :
        Repeated(s, t) =>
            LET u == sync[t].existingUserId
            IN  /\ sync[s].result.data = sync[t].result.data
                /\ lastPut[u] = t
                /\ sync[t].before = sync[s].wrote
                /\ WithoutUpdatedAt(customerTable[u])
                       = WithoutUpdatedAt(sync[t].before)

C10_Witness ==
    \E s, t \in SyncIds :
        /\ Repeated(s, t)
        /\ Len(sync[s].listed) = 1
        /\ sync[t].before.updatedAt # customerTable[sync[t].existingUserId].updatedAt

\* the attributes of a Customer Record that are not part of the snapshot
DirectoryFields == {"userId", "stripeCustomerId", "email", "createdAt"}

\* attribute k is present in both items with one value, or absent in both
SameAttribute(a, b, k) ==
    /\ (k \in DOMAIN a) = (k \in DOMAIN b)
    /\ (k \in DOMAIN a /\ k \in DOMAIN b) => a[k] = b[k]

\* C11: a successful Reconciler run leaves userId, stripeCustomerId, email
\* and createdAt of the record as they were before its write; createdAt is
\* neither changed nor removed.
C11_RunPreservesDirectoryFields ==
    \A s \in SyncIds :
        (Succeeded(s) /\ lastPut[sync[s].existingUserId] = s) =>
            \A k \in DirectoryFields :
                SameAttribute(customerTable[sync[s].existingUserId],
                              sync[s].before, k)

\* the Lambda service has started the run that invocation p asked for
Invoked(p) == \E s \in SyncIds : sync[s].trigger = p

\* the handler has answered 200 with a Reconciler result that reports success
RelaysSuccess(p) ==
    /\ successSync[p].pc = "done"
    /\ successSync[p].response.statusCode = 200
    /\ "success" \in DOMAIN successSync[p].response.body
    /\ successSync[p].response.body.success

\* the snapshot attributes of an item
SnapshotOf(item) == [k \in SnapshotFields |-> item[k]]

\* C12: Post-checkout Sync never answers before the run it invoked has
\* returned, and when it relays a successful result that run has already
\* written the caller's record and the snapshot in the response is the
\* snapshot that run stored.
C12_ResponseAfterReconciliation ==
    \A p \in SuccessIds :
        /\ (successSync[p].pc = "done" /\ Invoked(p)) => RunOf(p).pc = "done"
        /\ RelaysSuccess(p) =>
               /\ RunOf(p).pc = "done"
               /\ RunOf(p).wrote # NoItem
               /\ RunOf(p).wrote.userId = successSync[p].user.sub
               /\ successSync[p].response.body.data = SnapshotOf(RunOf(p).wrote)

C12_Witness ==
    \E p \in SuccessIds :
        /\ RelaysSuccess(p)
        /\ successSync[p].response.body.data.status = "active"
        /\ RunOf(p).wrote.subscriptionId = "sub_1"

\* the run invoked by p has returned a failure result
RunFailed(p) ==
    /\ successSync[p].pc = "done"
    /\ Invoked(p)
    /\ RunOf(p).pc = "done"
    /\ ~RunOf(p).result.success

\* C13: when the invoked run ends in a failure, the HTTP response of
\* Post-checkout Sync carries an error status and the run's message; it is
\* never a 200.
C13_FailureSurfaced ==
    \A p \in SuccessIds :
        RunFailed(p) =>
            /\ successSync[p].response.statusCode \in {400, 404, 500, 502}
            /\ "error" \in DOMAIN successSync[p].response.body
            /\ successSync[p].response.body.error = RunOf(p).result.error

\* C14: the run Post-checkout Sync invokes is keyed by the stripeCustomerId
\* held by the caller's own Customer Record, never by the userId.
C14_KeyedByStoredCustomerId ==
    \A p \in SuccessIds :
        Invoked(p) =>
            LET key == Field(RunOf(p).event, "stripeCustomerId")
                Item == GetItem(customerTable, Field(successSync[p].user, "sub"))
            IN  /\ key # Field(successSync[p].user, "sub")
                /\ key = Field(Item, "stripeCustomerId")

\* the reduced view of a stored snapshot, as custom user attributes
ReducedView(item) ==
    [subscriptionStatus |-> item.status,
     subscriptionEnd |-> item.currentPeriodEnd,
     cancelAtPeriodEnd |-> item.cancelAtPeriodEnd]

\* C15: after a successful Reconciler run whose write is the last one on the
\* user's record, the user's custom attributes in the user pool equal the
\* status, period end and cancellation flag of the snapshot that run stored.
C15_AttributesFollowSnapshot ==
    \A s \in SyncIds :
        (Succeeded(s) /\ lastPut[sync[s].existingUserId] = s) =>
            userAttributes[sync[s].existingUserId] = ReducedView(sync[s].wrote)

\* the run has returned and its event carried no usable identifier
NoIdentifier(s) ==
    /\ sync[s].pc = "done"
    /\ Falsy(Field(sync[s].event, "userId"))
    /\ Falsy(Field(sync[s].event, "stripeCustomerId"))

ListingFailed(s) ==
    /\ sync[s].pc = "done"
    /\ sync[s].listCalls > 0
    /\ sync[s].subData = <<>>

\* C17: a run whose subscription listing fails returns a result classified
\* as an upstream failure, with the caller-facing status 502.
C17_ListingFailureClassified ==
    \A s \in SyncIds :
        ListingFailed(s) =>
            /\ ~sync[s].result.success
            /\ "statusCode" \in DOMAIN sync[s].result
            /\ sync[s].result.statusCode = 502

\* the users that have a Customer Record
Recorded == {u \in Users : customerTable[u] # NoItem}

\* C18: the Directory holds one record per userId, stored under that userId,
\* and no two records of different users hold the same stripeCustomerId: a
\* reverse lookup returns at most one record.
C18_OneRecordPerUserAndCustomer ==
    /\ \A u \in Recorded : customerTable[u].userId = u
    /\ \A u, v \in Recorded :
          (/\ u # v
           /\ "stripeCustomerId" \in DOMAIN customerTable[u]
           /\ "stripeCustomerId" \in DOMAIN customerTable[v]) =>
              customerTable[u].stripeCustomerId # customerTable[v].stripeCustomerId
    /\ \A id \in CustomerIds :
          Cardinality(QueryByStripeCustomerId(customerTable, id)) <= 1

C18_Witness ==
    /\ Recorded = Users
    /\ \E s \in SyncIds : Succeeded(s) /\ lastPut[sync[s].existingUserId] = s
    /\ \E c \in CheckoutIds : \E u \in Users : lastPut[u] = c

\* C19: every stripeCustomerId stored in a Customer Record names a customer
\* the provider holds, and was created for that record's user.
C19_StoredCustomerExists ==
    \A u \in Recorded :
        "stripeCustomerId" \in DOMAIN customerTable[u] =>
            /\ CustomerExists(customerTable[u].stripeCustomerId)
            /\ \E i \in CustomersOf(u) :
                  customers[i].id = customerTable[u].stripeCustomerId

C19_Witness ==
    \E u \in Recorded :
        /\ customerTable[u].stripeCustomerId = "cus_2"
        /\ lastPut[u] \in SyncIds
        /\ \E c \in CheckoutIds :
              checkout[c].pc = "done" /\ checkout[c].response.statusCode = 500

\* the request of c has been taken up and its claims lack the user id or
\* the email
NoIdentity(c) ==
    /\ checkout[c].pc # "idle"
    /\ "sub" \notin DOMAIN checkout[c].user \/ "email" \notin DOMAIN checkout[c].user

\* C20: Checkout Initiation without an authenticated identity answers 401
\* and reads nothing from the Directory, writes nothing to it, creates no
\* provider customer and no checkout session.
C20_UnauthenticatedCheckoutRejected ==
    \A c \in CheckoutIds :
        NoIdentity(c) =>
            /\ checkout[c].pc = "done"
            /\ checkout[c].response = Response(401, ErrorBody("Unauthorized"))
            /\ checkout[c].looked = "no"
            /\ ~checkout[c].wrote
            /\ checkout[c].newCustomer = Undefined
            /\ NoWritesBy(c)

C20_Witness ==
    \E c, d \in CheckoutIds :
        /\ NoIdentity(c)
        /\ checkout[c].user = [sub |-> "u1"]
        /\ checkout[c].response.statusCode = 401
        /\ checkout[d].pc = "done" /\ checkout[d].response.statusCode = 200
        /\ d \in checkout[c].after

\* the call of c looked for the user's record, found no stripeCustomerId and
\* has returned without one from the provider
CreateFailed(c) ==
    /\ checkout[c].pc = "done"
    /\ checkout[c].looked # "no"
    /\ Falsy(checkout[c].stripeCustomerId)
    /\ checkout[c].newCustomer = Undefined

\* C21: when the provider's customer creation fails, Checkout Initiation
\* answers 500 and has written no record, created no customer and no
\* checkout session; a 500 for the creation is given only then.
C21_CreateFailureLeavesNoTrace ==
    \A c \in CheckoutIds :
        /\ CreateFailed(c) =>
               /\ checkout[c].response
                      = Response(500, ErrorBody("Failed to create stripe customer"))
               /\ ~checkout[c].wrote
               /\ NoWritesBy(c)
        /\ (/\ checkout[c].pc = "done"
            /\ checkout[c].response.body
                   = ErrorBody("Failed to create stripe customer")) =>
               CreateFailed(c) /\ NoWritesBy(c)

C21_Witness ==
    \E c, d \in CheckoutIds :
        /\ CreateFailed(c)
        /\ checkout[c].response.statusCode = 500
        /\ checkout[c].user.sub = "u2"
        /\ customerTable["u2"] = NoItem
        /\ checkout[d].pc = "done" /\ checkout[d].response.statusCode = 200
        /\ customerTable["u1"] # NoItem

\* the portal sessions created by invocation m
PortalSessionsOf(m) == {x \in portalSessions : x.id = m}

\* the caller of m is authenticated and the lookup found no stripeCustomerId
NoCustomerOnFile(m) ==
    /\ portal[m].pc # "idle"
    /\ portal[m].looked = "yes"
    /\ portal[m].stripeCustomerId = Undefined

\* C22: the Billing Portal Launcher, called by an authenticated user whose
\* record is absent or has no stripeCustomerId, answers 404 and creates no
\* portal session; a portal session is only ever created for a customer of
\* the caller, the one the caller's record holds.
C22_PortalNeedsStoredCustomer ==
    /\ \A m \in PortalIds :
          NoCustomerOnFile(m) =>
              /\ portal[m].pc = "done"
              /\ portal[m].response = Response(404, ErrorBody(ErrPortalNoCustomer))
              /\ PortalSessionsOf(m) = {}
    /\ \A x \in portalSessions :
          /\ x.customer = Field(customerTable[portal[x.id].cognitoSub],
                                "stripeCustomerId")
          /\ \E i \in CustomersOf(portal[x.id].cognitoSub) :
                customers[i].id = x.customer

C22_Witness ==
    \E m, n \in PortalIds :
        /\ NoCustomerOnFile(m)
        /\ portal[m].response.statusCode = 404
        /\ portal[m].cognitoSub = "u2"
        /\ PortalSessionsOf(n) # {}
        /\ portal[n].cognitoSub = "u1"

\* C23: no step of the Billing Portal Launcher, whatever its outcome,
\* changes the Directory.
C23_PortalLeavesDirectory ==
    [][portal' # portal => customerTable' = customerTable]_vars

C23_Witness ==
    /\ {portal[m].response.statusCode :
            m \in {n \in PortalIds : portal[n].pc = "done"}} \in
          {{200, 401}, {200, 404}, {200, 500}}
    /\ \E u \in Recorded : lastPut[u] \in SyncIds

\* the request of m has been taken up and carries no user id
NoPortalIdentity(m) ==
    /\ portal[m].pc # "idle"
    /\ \/ "claims" \notin DOMAIN portal[m].authorizer
       \/ "sub" \notin DOMAIN portal[m].authorizer.claims

\* C24: the Billing Portal Launcher invoked without authorizer claims, or
\* with claims that hold no user id, answers 401 with an error body, reads
\* nothing from the Directory and creates no portal session.
C24_PortalUnauthenticatedIs401 ==
    \A m \in PortalIds :
        NoPortalIdentity(m) =>
            /\ portal[m].pc = "done"
            /\ portal[m].response.statusCode = 401
            /\ "error" \in DOMAIN portal[m].response.body
            /\ portal[m].looked = "no"
            /\ PortalSessionsOf(m) = {}

\* the user id in the claims of the request p has taken up
CallerOf(p) == Field(successSync[p].user, "sub")

\* C25: Post-checkout Sync invokes the Reconciler only for an authenticated
\* caller whose record holds a stripeCustomerId; without an identity it
\* answers 401, without a stripeCustomerId on file 404, and in neither case
\* is the Reconciler invoked.
C25_InvokeOnlyWhenResolved ==
    \A p \in SuccessIds :
        /\ (successSync[p].pc # "idle" /\ Falsy(CallerOf(p))) =>
               /\ successSync[p].pc = "done"
               /\ successSync[p].response.statusCode = 401
               /\ ~Invoked(p)
        /\ Invoked(p) =>
               /\ ~Falsy(CallerOf(p))
               /\ "stripeCustomerId" \in DOMAIN GetItem(customerTable, CallerOf(p))
        /\ (/\ successSync[p].pc = "done"
            /\ ~Falsy(CallerOf(p))
            /\ ~Invoked(p)
            /\ successSync[p].response.statusCode # 500) =>
               successSync[p].response.statusCode = 404

\* w has taken up a correctly signed request of an allowed type whose
\* data.object.customer is not a string
NoStringCustomer(w) ==
    /\ webhook[w].pc # "idle"
    /\ GenuineSignature(webhook[w].request)
    /\ webhook[w].request.body.type \in allowedEvents
    /\ CustomerOf(webhook[w].request.body).typeof # "string"

\* C26: a correctly signed webhook of an allowed type whose payload carries
\* no string customer id is answered 400 with an error body and dispatches
\* nothing.
C26_InvalidCustomerIs400 ==
    \A w \in WebhookIds :
        NoStringCustomer(w) =>
            /\ webhook[w].pc = "done"
            /\ webhook[w].response.statusCode = 400
            /\ "error" \in DOMAIN webhook[w].response.body
            /\ ~Dispatched(w)

\* s and t are successful runs for one customer and neither began after the
\* other had returned
Overlapping(s, t) ==
    /\ s # t
    /\ Succeeded(s) /\ Succeeded(t)
    /\ sync[s].stripeCustomerId = sync[t].stripeCustomerId
    /\ s \notin sync[t].after
    /\ t \notin sync[s].after

\* C27: whenever the last write to a user's record was a Reconciler run's,
\* the record is the item that run put, and its snapshot fields are, all
\* together, the snapshot that run computed: never a mixture of two runs.
C27_LastWriteWins ==
    \A u \in Users :
        lastPut[u] \in SyncIds =>
            /\ customerTable[u] = sync[lastPut[u]].wrote
            /\ SnapshotOf(customerTable[u]) = sync[lastPut[u]].result.data

C27_Witness ==
    \E s, t \in SyncIds :
        /\ Overlapping(s, t)
        /\ sync[s].subData # sync[t].subData
        /\ sync[s].listedAt < sync[t].listedAt
        /\ lastPut[sync[s].existingUserId] = s
        /\ sync[t].wrote # NoItem
        /\ SnapshotOf(customerTable[sync[s].existingUserId]) = sync[s].subData

ErrorStatuses == {400, 401, 404, 500, 502}

\* the response has an error status and a body with an error field
Classified(response) ==
    /\ response.statusCode \in ErrorStatuses
    /\ "error" \in DOMAIN response.body

\* the response reports a failure: by its status or by an error in its body
Failing(response) ==
    response.statusCode # 200 \/ "error" \in DOMAIN response.body

\* C28: every response that reports a failure, from any handler, has a status
\* among 400, 401, 404, 500 and 502 and a body with an error field, and a
\* Reconciler failure result carries an error message.
C28_FailuresClassified ==
    /\ \A c \in CheckoutDone :
          Failing(checkout[c].response) => Classified(checkout[c].response)
    /\ \A w \in {v \in WebhookIds : webhook[v].pc = "done"} :
          Failing(webhook[w].response) => Classified(webhook[w].response)
    /\ \A m \in {n \in PortalIds : portal[n].pc = "done"} :
          Failing(portal[m].response) => Classified(portal[m].response)
    /\ \A p \in {q \in SuccessIds : successSync[q].pc = "done"} :
          Failing(successSync[p].response) => Classified(successSync[p].response)
    /\ \A s \in SyncDone :
          ~sync[s].result.success => "error" \in DOMAIN sync[s].result

\* C29: in every step, a user that has a record keeps one, a user that gains
\* a record gains it from a Checkout Initiation write, and a Reconciler run
\* that has written did so over a record that was already there.
C29_RecordLifecycle ==
    [][/\ \A u \in Users :
             /\ customerTable[u] # NoItem => customerTable'[u] # NoItem
             /\ (customerTable[u] = NoItem /\ customerTable'[u] # NoItem) =>
                    lastPut'[u] \in CheckoutIds
       /\ \A s \in SyncIds :
             sync'[s].wrote # NoItem =>
                 /\ sync'[s].before # NoItem
                 /\ sync'[s].wrote.userId = sync'[s].before.userId]_vars

C29_Witness ==
    /\ Recorded = {"u1"}
    /\ lastPut["u1"] \in SyncIds
    /\ \E c \in CheckoutIds :
          /\ checkout[c].pc = "done"
          /\ checkout[c].user = [sub |-> "u2", email |-> Email("u2")]
          /\ checkout[c].response.statusCode = 500

\* the run has normalised a listing that was not empty
Normalised(s) ==
    /\ sync[s].pc \in {"put", "done"}
    /\ Len(sync[s].listed) > 0

\* the value is an expanded object: neither a reference string, nor null,
\* nor undefined
IsExpanded(v) == v.typeof = "object" /\ "isNull" \notin DOMAIN v

\* C30: the snapshot of a non-empty listing is built from the provider's
\* first subscription: id, status, period and cancellation flag pass
\* through, priceId is the first line item's, and paymentMethod is non-null
\* exactly when the default payment method is an expanded object, holding
\* the card's brand and last4, or nulls when the object has no card.
C30_NormalizesFirstSubscription ==
    \A s \in SyncIds :
        Normalised(s) =>
            LET first == sync[s].listed[1]
                dpm == first.default_payment_method
                data == sync[s].subData
            IN  /\ Len(sync[s].listed) = 1
                /\ data.subscriptionId = first.id
                /\ data.status = first.status
                /\ data.priceId = first.items[1]
                /\ data.currentPeriodEnd = first.current_period_end
                /\ data.currentPeriodStart = first.current_period_start
                /\ data.cancelAtPeriodEnd = first.cancel_at_period_end
                /\ (data.paymentMethod # NullObject) = IsExpanded(dpm)
                /\ (IsExpanded(dpm) /\ "card" \in DOMAIN dpm) =>
                       data.paymentMethod
                           = [brand |-> dpm.card.brand, last4 |-> dpm.card.last4]
                /\ (IsExpanded(dpm) /\ "card" \notin DOMAIN dpm) =>
                       data.paymentMethod = [brand |-> Null, last4 |-> Null]

C30_Witness ==
    \E s \in SyncIds :
        /\ Succeeded(s)
        /\ Normalised(s)
        /\ Len(subscriptions[sync[s].stripeCustomerId]) = 2
        /\ sync[s].listed[1].id = "sub_5"
        /\ sync[s].result.data.priceId = "price_2"
        /\ sync[s].result.data.paymentMethod = [brand |-> Null, last4 |-> Null]

\* the Directory held a customer link for the caller when c was called
HeldLink(c) ==
    /\ checkout[c].pc # "idle"
    /\ ~Falsy(Field(checkout[c].before, "stripeCustomerId"))

\* C31: a Checkout Initiation call made while the Directory holds a record
\* with a stripeCustomerId for the caller creates no provider customer and
\* writes nothing to the Directory, also when its own lookup fails.
C31_ExistingLinkKept ==
    \A c \in CheckoutIds :
        HeldLink(c) =>
            /\ checkout[c].newCustomer = Undefined
            /\ ~checkout[c].wrote
            /\ \A i \in 1..Len(customers) : customers[i].by # c

\* the Put of call c rejected after its provider customer was created: the
\* handler holds newCustomer and never reached line 89
PutFailed(c) ==
    /\ checkout[c].pc = "done"
    /\ checkout[c].newCustomer # Undefined
    /\ Falsy(checkout[c].stripeCustomerId)

\* C32: when the Directory write of Checkout Initiation fails after the
\* provider customer was created, the call answers 500 and creates no
\* session, it has written nothing to the Directory, and the provider holds
\* the new customer while no Customer Record names it.
C32_PutFailureOrphansCustomer ==
    \A c \in CheckoutIds :
        PutFailed(c) =>
            /\ checkout[c].response
                   = Response(500, ErrorBody("Failed to create checkout session"))
            /\ \A session \in sessions : session.id # c
            /\ ~checkout[c].wrote
            /\ \A u \in Users : lastPut[u] # c
            /\ CustomerExists(checkout[c].newCustomer)
            /\ \A u \in Users :
                   Field(customerTable[u], "stripeCustomerId")
                       # checkout[c].newCustomer

C32_Witness ==
    \E c \in CheckoutIds :
        /\ PutFailed(c)
        /\ checkout[c].response.statusCode = 500
        /\ customers[1].id = checkout[c].newCustomer
        /\ customerTable[checkout[c].user.sub] = NoItem

\* the run has returned a failure result
Failed(s) == sync[s].pc = "done" /\ ~sync[s].result.success

\* C33: a Reconciler run that ends in a failure has written nothing to the
\* Directory, and a run that has written resolved the user through the
\* index, read the provider once, and returned success right after the write.
C33_FailedRunWritesNothing ==
    \A s \in SyncIds :
        /\ Failed(s) =>
               /\ sync[s].wrote = NoItem
               /\ \A u \in Users : lastPut[u] # s
        /\ sync[s].wrote # NoItem =>
               /\ sync[s].queried = "hit"
               /\ sync[s].listCalls = 1
               /\ Succeeded(s)

C33_Witness ==
    \E s, t \in SyncIds :
        /\ Failed(s) /\ Failed(t)
        /\ sync[s].result = SyncFailure(ErrStripe)
        /\ sync[t].result = SyncFailure(ErrDynamo)
        /\ sync[t].listCalls = 1
        /\ customerTable[sync[s].existingUserId] # NoItem
        /\ "updatedAt" \notin DOMAIN customerTable[sync[s].existingUserId]

\* every run dispatched for customer id has returned success, and one of them
\* read the provider after its last change
Quiescent(id) ==
    /\ \A s \in SyncIds :
           Field(sync[s].event, "stripeCustomerId") = id => Succeeded(s)
    /\ \E s \in SyncIds :
           /\ Succeeded(s)
           /\ sync[s].stripeCustomerId = id
           /\ sync[s].listedAt = epoch

\* C34: once the provider has stopped changing and every run dispatched for a
\* customer has completed successfully, the persisted snapshot is the
\* normalisation of the provider's final subscription state, whatever the
\* order in which overlapping runs read the provider and wrote.
C34_ConvergesAtQuiescence ==
    \A id \in CustomerIds :
        Quiescent(id) =>
            \A u \in Users :
                Field(customerTable[u], "stripeCustomerId") = id =>
                    SnapshotOf(customerTable[u])
                        = Normalize(ListSubscriptions(id))

\* call c answered 200, and every other call has either not begun or has
\* finished and did not begin after c returned
Settled(c) ==
    /\ checkout[c].pc = "done"
    /\ checkout[c].response.statusCode = 200
    /\ \A d \in CheckoutIds \ {c} :
           \/ checkout[d].pc = "idle"
           \/ checkout[d].pc = "done" /\ c \notin checkout[d].after

\* C35: when Checkout Initiation answered 200 and the calls overlapping it
\* have finished, the session it created belongs to the stripeCustomerId the
\* Directory holds for the caller, so the Reconciler's reverse lookup of the
\* session's customer yields that user.
C35_SessionCustomerIsLinked ==
    \A c \in CheckoutIds :
        Settled(c) =>
            \A session \in sessions :
                session.id = c =>
                    /\ Field(customerTable[checkout[c].user.sub],
                             "stripeCustomerId") = session.customer
                    /\ checkout[c].user.sub \in
                           FirstUserIds(QueryByStripeCustomerId(customerTable,
                                                               session.customer))

\* C36: the snapshot a successful run returns is, field for field, the
\* snapshot in the item that same run put, and a run returns success only
\* when its Put has been stored.
C36_ReturnsWhatItWrote ==
    \A s \in SyncIds :
        Succeeded(s) =>
            /\ sync[s].wrote # NoItem
            /\ DOMAIN sync[s].result.data = SnapshotFields
            /\ SnapshotOf(sync[s].wrote) = sync[s].result.data
            /\ sync[s].wrote.userId = sync[s].existingUserId

C36_Witness ==
    \E s \in SyncIds :
        /\ Succeeded(s)
        /\ Len(sync[s].listed) = 1
        /\ sync[s].result.data.status = "active"
        /\ lastPut[sync[s].existingUserId] # s
        /\ customerTable[sync[s].existingUserId] # sync[s].wrote

====
